---- MODULE Spec2Model ----
(***************************************************************************)
(* Model of examples/temporary-files-and-directories: main() creates a     *)
(* temporary file, writes 4 bytes to it, creates a temporary directory,    *)
(* writes file1 inside it, and cleans up with deferred calls.  Two runs of *)
(* the program share one file system.  Every OS call may fail, a write to  *)
(* standard output included; os.WriteFile and os.RemoveAll are sequences   *)
(* of system calls between which the other run can take steps.             *)
(*                                                                         *)
(* Paths are sequences of one-character strings ("/tmp/sample0").          *)
(***************************************************************************)
EXTENDS Integers, Sequences, FiniteSets, TLC

VARIABLES fs, pc, f, dname, wferr, panicval, defers, registered, stdout, trace

vars == <<fs, pc, f, dname, wferr, panicval, defers, registered, stdout, trace>>

\* ---------------------------------------------------------------- bounds
\* the random suffixes the name generator may draw are 0..MaxRand
MaxRand == 1

\* at most MaxFails OS calls are made to fail in one run of the program
MaxFails == 1

\* the two concurrent runs of the program
Procs == {"p1", "p2"}

\* ------------------------------------------------------------- constants
Rand == 0 .. MaxRand

\* os.TempDir() on a Unix-like system: "/tmp"
TempDir == <<"/", "t", "m", "p">>

\* the pattern passed to os.CreateTemp: "sample"
FilePattern == <<"s", "a", "m", "p", "l", "e">>

\* the pattern passed to os.MkdirTemp: "sampledir"
DirPattern == <<"s", "a", "m", "p", "l", "e", "d", "i", "r">>

\* the file name joined to the directory: "file1"
File1 == <<"f", "i", "l", "e", "1">>

\* faulty variant of WriteBuf: one byte short
WriteBufShort == <<1, 2, 3>>

\* the bytes written to the temporary file: []byte{1, 2, 3, 4}
WriteBuf == <<1, 2, 3, 4>>

\* the bytes written to file1: []byte{1, 2}
WriteFileBuf == <<1, 2>>

\* the empty path, value of a string variable not yet assigned
NoPath == << >>

\* the nil *os.File
NilFile == [name |-> NoPath, open |-> FALSE, writable |-> FALSE]

\* ------------------------------------------------------- pure functions
Digits == <<"0", "1", "2", "3", "4", "5", "6", "7", "8", "9">>

RECURSIVE Itoa(_)
\* decimal digits of a natural number (the random part of a temp name)
Itoa(n) == IF n < 10 THEN <<Digits[n + 1]>>
           ELSE Itoa(n \div 10) \o <<Digits[(n % 10) + 1]>>

HasPrefix(s, pre) == Len(s) >= Len(pre) /\ SubSeq(s, 1, Len(pre)) = pre

\* index of the last separator of a path, 0 when there is none
LastSlash(path) ==
    LET idx == {i \in 1 .. Len(path) : path[i] = "/"}
    IN  IF idx = {} THEN 0 ELSE CHOOSE i \in idx : \A j \in idx : j <= i

\* last element of a path
Base(path) == SubSeq(path, LastSlash(path) + 1, Len(path))

\* all but the last element of a path
Dir(path) == IF LastSlash(path) <= 1 THEN SubSeq(path, 1, LastSlash(path))
             ELSE SubSeq(path, 1, LastSlash(path) - 1)

\* faulty variant of JoinPath: the separator is forgotten
JoinPathNoSep(dir, name) == dir \o name

\* filepath.Join(dir, name) for two clean, non-empty elements
JoinPath(dir, name) == dir \o <<"/">> \o name

\* faulty variant of TempName: the pattern is not used as the prefix
TempNameNoPrefix(pattern, r) == TempDir \o <<"/">> \o Itoa(r) \o pattern

\* the name os.CreateTemp("", pattern) / os.MkdirTemp("", pattern) tries
\* for the random draw r: the default location, then pattern + random
TempName(pattern, r) == TempDir \o <<"/">> \o pattern \o Itoa(r)

\* path lies strictly below dir
IsUnder(path, dir) == HasPrefix(path, dir \o <<"/">>) /\ Len(path) > Len(dir) + 1

\* faulty variant of NameAvailable: the exclusive-create check is dropped
NameAvailableAlways(fsys, path) == TRUE

\* O_EXCL / mkdir: a temp name is taken only if nothing exists at the path
NameAvailable(fsys, path) == path \notin DOMAIN fsys

\* faulty variant of check: the error is dropped
checkIgnores(e) == FALSE

\* check(e): TRUE when it panics
check(e) == e # "nil"

\* faulty variant of TopDeferred: first registered runs first
TopDeferredFifo(stack) == IF stack = << >> THEN 0 ELSE 1

\* index of the deferred call that runs next: the last one registered
TopDeferred(stack) == Len(stack)

\* the deferred calls left after the one at index i ran
PopDeferred(stack, i) == SubSeq(stack, 1, i - 1) \o SubSeq(stack, i + 1, Len(stack))

\* ---------------------------------------------------------- file system
\* owner of the entry at a path, "none" when nothing is there
OwnerAt(fsys, path) == IF path \in DOMAIN fsys THEN fsys[path].owner ELSE "none"

Restrict(fsys, keep) == [q \in keep |-> fsys[q]]

\* the file system with an entry put at path
FsPut(fsys, path, entry) ==
    [q \in DOMAIN fsys \cup {path} |-> IF q = path THEN entry ELSE fsys[q]]

HasChildren(fsys, path) == \E q \in DOMAIN fsys : IsUnder(q, path)

\* os.Remove succeeds on an existing file or empty directory
RemoveOk(fsys, path) == path \in DOMAIN fsys /\ ~HasChildren(fsys, path)

FsRemove(fsys, path) == Restrict(fsys, DOMAIN fsys \ {path})

\* the file system without the entries below path
FsUnlinkChildren(fsys, path) ==
    Restrict(fsys, {q \in DOMAIN fsys : ~IsUnder(q, path)})

\* owner of what lies below path, "none" when nothing does
OwnerUnder(fsys, path) ==
    IF HasChildren(fsys, path)
    THEN fsys[CHOOSE q \in DOMAIN fsys : IsUnder(q, path)].owner
    ELSE "none"

\* bytes of a file after writing the first n bytes of b at its end
FileWrite(old, b, n) == old \o SubSeq(b, 1, n)

Event(op, ok, own) == [op |-> op, ok |-> ok, own |-> own]

Log(p, e) == trace' = [trace EXCEPT ![p] = Append(@, e)]

\* ----------------------------------------------------------------- Init
\* the default temporary location exists before any run starts
Init ==
    /\ fs = [q \in {TempDir} |-> [kind |-> "dir", data |-> << >>, owner |-> "system"]]
    /\ pc = [p \in Procs |-> "CreateTemp"]
    /\ f = [p \in Procs |-> NilFile]
    /\ dname = [p \in Procs |-> NoPath]
    /\ wferr = [p \in Procs |-> "nil"]
    /\ panicval = [p \in Procs |-> "nil"]
    /\ defers = [p \in Procs |-> << >>]
    /\ registered = [p \in Procs |-> << >>]
    /\ stdout = [p \in Procs |-> << >>]
    /\ trace = [p \in Procs |-> << >>]

\* the number of OS calls of p that have failed so far
NumFailed(p) == Cardinality({i \in 1 .. Len(trace[p]) : ~trace[p][i].ok})

\* the outcomes an OS call of p can have: success, or failure
OkChoices(p) == IF NumFailed(p) < MaxFails THEN BOOLEAN ELSE {TRUE}

\* the byte counts a write of b by p can reach: all of b, or fewer with an error
WriteCounts(p, b) == IF NumFailed(p) < MaxFails THEN 0 .. Len(b) ELSE {Len(b)}

\* the outcomes of a write to standard output by p
PrintChoices(p) ==
    IF NumFailed(p) < MaxFails THEN {"written", "error", "sigpipe"} ELSE {"written"}

\* faulty variant of AfterCheck: the failure ends the process at once (as os.Exit
\* would), no deferred call runs
AfterCheckExit(p, e, next) ==
    /\ pc' = [pc EXCEPT ![p] = IF check(e) THEN "exited" ELSE next]
    /\ panicval' = [panicval EXCEPT ![p] = IF check(e) THEN e ELSE @]

\* where control goes when main returns or panics with the deferred calls
\* left: to the deferred calls, or out of the process when there is none
Leave(left) == IF left = << >> THEN "exited" ELSE "Return"

\* where control goes after check(err): on to next, or unwinding
AfterCheck(p, e, next) ==
    /\ pc' = [pc EXCEPT ![p] = IF check(e) THEN Leave(defers[p]) ELSE next]
    /\ panicval' = [panicval EXCEPT ![p] = IF check(e) THEN e ELSE @]

\* ---------------------------------------------------------- body of main
\* f, err := os.CreateTemp("", "sample"); check(err)
\* a random name that is taken is not returned: another one is drawn
CreateTemp(p) ==
    /\ pc[p] = "CreateTemp"
    /\ \E ok \in OkChoices(p), r \in Rand :
         LET path == TempName(FilePattern, r)
             success == ok
             e == IF success THEN "nil" ELSE "CreateTemp"
         IN  /\ ok => NameAvailable(fs, path)
             /\ fs' = IF success /\ path \notin DOMAIN fs
                       THEN FsPut(fs, path, [kind |-> "file", data |-> << >>, owner |-> p])
                       ELSE fs
             /\ f' = [f EXCEPT ![p] = IF success
                                       THEN [name |-> path, open |-> TRUE, writable |-> TRUE]
                                       ELSE NilFile]
             /\ Log(p, Event("CreateTemp", success, IF success THEN OwnerAt(fs, path) ELSE "none"))
             /\ AfterCheck(p, e, "Println1")
    /\ UNCHANGED <<wferr, dname, defers, registered, stdout>>

\* fmt.Println(label, path); its error is discarded.  The line is written,
\* or the write fails and main goes on, or the write fails with EPIPE and the
\* runtime ends the process with SIGPIPE: no deferred call runs
Println(p, label, path, next) ==
    /\ \E out \in PrintChoices(p) :
         /\ stdout' = [stdout EXCEPT ![p] = IF out = "written"
                                             THEN Append(@, <<label, path>>)
                                             ELSE @]
         /\ Log(p, Event("Println", out = "written", "none"))
         /\ pc' = [pc EXCEPT ![p] = IF out = "sigpipe" THEN "killed" ELSE next]
    /\ UNCHANGED <<wferr, fs, f, dname, panicval, defers, registered>>

\* fmt.Println("Temp file name:", f.Name())
Println1(p) ==
    /\ pc[p] = "Println1"
    /\ Println(p, "Temp file name:", f[p].name, "DeferRemove")

\* a defer statement: the call and its evaluated argument are pushed
Defer(p, op, path, next) ==
    /\ defers' = [defers EXCEPT ![p] = Append(@, [op |-> op, path |-> path])]
    /\ registered' = [registered EXCEPT ![p] = Append(@, op)]
    /\ pc' = [pc EXCEPT ![p] = next]
    /\ UNCHANGED <<wferr, fs, f, dname, panicval, stdout, trace>>

\* defer os.Remove(f.Name())
DeferRemove(p) ==
    /\ pc[p] = "DeferRemove"
    /\ Defer(p, "Remove", f[p].name, "DeferClose")

\* defer f.Close()
DeferClose(p) ==
    /\ pc[p] = "DeferClose"
    /\ Defer(p, "Close", NoPath, "Write")

\* _, err = f.Write([]byte{1, 2, 3, 4}); check(err)
\* n bytes reach the file; err is non-nil exactly when n < len(b)
Write(p) ==
    /\ pc[p] = "Write"
    /\ \E n \in WriteCounts(p, WriteBuf) :
         LET path == f[p].name
             m == IF f[p].open /\ f[p].writable THEN n ELSE 0
             e == IF m = Len(WriteBuf) THEN "nil" ELSE "Write"
         IN  /\ fs' = IF path \in DOMAIN fs
                       THEN [fs EXCEPT ![path].data = FileWrite(@, WriteBuf, m)]
                       ELSE fs
             /\ Log(p, Event("Write", e = "nil", OwnerAt(fs, path)))
             /\ AfterCheck(p, e, "MkdirTemp")
    /\ UNCHANGED <<wferr, f, dname, defers, registered, stdout>>

\* dname, err := os.MkdirTemp("", "sampledir"); check(err)
MkdirTemp(p) ==
    /\ pc[p] = "MkdirTemp"
    /\ \E ok \in OkChoices(p), r \in Rand :
         LET path == TempName(DirPattern, r)
             success == ok
             e == IF success THEN "nil" ELSE "MkdirTemp"
         IN  /\ ok => NameAvailable(fs, path)
             /\ fs' = IF success /\ path \notin DOMAIN fs
                       THEN FsPut(fs, path, [kind |-> "dir", data |-> << >>, owner |-> p])
                       ELSE fs
             /\ dname' = [dname EXCEPT ![p] = IF success THEN path ELSE NoPath]
             /\ Log(p, Event("MkdirTemp", success, IF success THEN OwnerAt(fs, path) ELSE "none"))
             /\ AfterCheck(p, e, "Println2")
    /\ UNCHANGED <<wferr, f, defers, registered, stdout>>

\* fmt.Println("Temp dir name:", dname)
Println2(p) ==
    /\ pc[p] = "Println2"
    /\ Println(p, "Temp dir name:", dname[p], "DeferRemoveAll")

\* defer os.RemoveAll(dname)
DeferRemoveAll(p) ==
    /\ pc[p] = "DeferRemoveAll"
    /\ Defer(p, "RemoveAll", dname[p], "WriteFile")

\* fname := filepath.Join(dname, "file1")
\* err = os.WriteFile(fname, []byte{1, 2}, 0666), first system call: the file
\* is created or truncated in an existing directory; when that fails
\* WriteFile returns the error and check(err) panics
WriteFile(p) ==
    /\ pc[p] = "WriteFile"
    /\ \E opened \in OkChoices(p) :
         LET fname == JoinPath(dname[p], File1)
             parent == Dir(fname)
             canOpen == /\ opened
                        /\ parent \in DOMAIN fs
                        /\ fs[parent].kind = "dir"
                        /\ (fname \in DOMAIN fs => fs[fname].kind = "file")
             e == IF canOpen THEN "nil" ELSE "WriteFile"
             own == IF fname \in DOMAIN fs THEN fs[fname].owner ELSE p
         IN  /\ fs' = IF canOpen
                       THEN FsPut(fs, fname, [kind |-> "file", data |-> << >>, owner |-> own])
                       ELSE fs
             /\ Log(p, IF canOpen
                       THEN Event("WriteFile.Open", TRUE, OwnerAt(fs, fname))
                       ELSE Event("WriteFile", FALSE, "none"))
             /\ AfterCheck(p, e, "WriteFileWrite")
    /\ UNCHANGED <<wferr, f, dname, defers, registered, stdout>>

\* os.WriteFile, second system call: n bytes of the data reach the file
WriteFileWrite(p) ==
    /\ pc[p] = "WriteFileWrite"
    /\ \E n \in WriteCounts(p, WriteFileBuf) :
         LET fname == JoinPath(dname[p], File1)
         IN  /\ fs' = IF fname \in DOMAIN fs
                       THEN [fs EXCEPT ![fname].data = FileWrite(@, WriteFileBuf, n)]
                       ELSE fs
             /\ wferr' = [wferr EXCEPT ![p] = IF n = Len(WriteFileBuf) THEN "nil" ELSE "WriteFile"]
             /\ Log(p, Event("WriteFile.Write", n = Len(WriteFileBuf), OwnerAt(fs, fname)))
    /\ pc' = [pc EXCEPT ![p] = "WriteFileClose"]
    /\ UNCHANGED <<f, dname, panicval, defers, registered, stdout>>

\* os.WriteFile, third system call: the file is closed; WriteFile returns the
\* write error, or else the close error; check(err); the end of main follows
WriteFileClose(p) ==
    /\ pc[p] = "WriteFileClose"
    /\ \E ok \in OkChoices(p) :
         LET fname == JoinPath(dname[p], File1)
             e == IF wferr[p] # "nil" THEN wferr[p]
                  ELSE IF ok THEN "nil" ELSE "WriteFile"
         IN  /\ Log(p, Event("WriteFile", e = "nil", OwnerAt(fs, fname)))
             /\ AfterCheck(p, e, Leave(defers[p]))
    /\ UNCHANGED <<wferr, fs, f, dname, defers, registered, stdout>>

\* ------------------------------------------------------- deferred calls
\* the deferred call that runs next in p, when p is returning or panicking
NextDeferred(p) == defers[p][TopDeferred(defers[p])]

Unwinding(p, op) ==
    /\ pc[p] = "Return"
    /\ defers[p] # << >>
    /\ NextDeferred(p).op = op

\* a deferred call of p has returned: it leaves the stack, and the next one
\* runs, or the process exits (normally or with the panic) when none is left
Popped(p) ==
    /\ defers' = [defers EXCEPT ![p] = PopDeferred(@, TopDeferred(@))]
    /\ pc' = [pc EXCEPT ![p] = Leave(PopDeferred(defers[p], TopDeferred(defers[p])))]

\* deferred os.RemoveAll(dname) starts: what lies in the directory is
\* unlinked first
RunRemoveAll(p) ==
    /\ Unwinding(p, "RemoveAll")
    /\ \E ok \in OkChoices(p) :
         LET path == NextDeferred(p).path
         IN  /\ fs' = IF ok THEN FsUnlinkChildren(fs, path) ELSE fs
             /\ Log(p, Event("RemoveAll.Unlink", ok \/ ~HasChildren(fs, path),
                             OwnerUnder(fs, path)))
    /\ pc' = [pc EXCEPT ![p] = "RemoveAllRmdir"]
    /\ UNCHANGED <<wferr, f, dname, panicval, defers, registered, stdout>>

\* deferred os.RemoveAll(dname) ends: the directory itself is removed, which
\* succeeds only on an empty directory; the error is discarded
RunRemoveAllRmdir(p) ==
    /\ pc[p] = "RemoveAllRmdir"
    /\ \E ok \in OkChoices(p) :
         LET path == NextDeferred(p).path
             success == ok /\ RemoveOk(fs, path)
         IN  /\ fs' = IF success THEN FsRemove(fs, path) ELSE fs
             /\ Log(p, Event("RemoveAll", success \/ path \notin DOMAIN fs,
                             OwnerAt(fs, path)))
    /\ Popped(p)
    /\ UNCHANGED <<wferr, f, dname, panicval, registered, stdout>>

\* deferred f.Close(); its error is discarded, the handle is released
RunClose(p) ==
    /\ Unwinding(p, "Close")
    /\ \E ok \in OkChoices(p) :
         Log(p, Event("Close", ok /\ f[p].open, OwnerAt(fs, f[p].name)))
    /\ f' = [f EXCEPT ![p].open = FALSE]
    /\ Popped(p)
    /\ UNCHANGED <<wferr, fs, dname, panicval, registered, stdout>>

\* deferred os.Remove(f.Name()); its error is discarded
RunRemove(p) ==
    /\ Unwinding(p, "Remove")
    /\ \E ok \in OkChoices(p) :
         LET path == NextDeferred(p).path
             success == ok /\ RemoveOk(fs, path)
         IN  /\ fs' = IF success THEN FsRemove(fs, path) ELSE fs
             /\ Log(p, Event("Remove", success, OwnerAt(fs, path)))
    /\ Popped(p)
    /\ UNCHANGED <<wferr, f, dname, panicval, registered, stdout>>

Next ==
    \E p \in Procs :
        \/ CreateTemp(p)
        \/ Println1(p)
        \/ DeferRemove(p)
        \/ DeferClose(p)
        \/ Write(p)
        \/ MkdirTemp(p)
        \/ Println2(p)
        \/ DeferRemoveAll(p)
        \/ WriteFile(p)
        \/ WriteFileWrite(p)
        \/ WriteFileClose(p)
        \/ RunRemoveAll(p)
        \/ RunRemoveAllRmdir(p)
        \/ RunClose(p)
        \/ RunRemove(p)

Spec == Init /\ [][Next]_vars

TypeOK ==
    /\ \A p \in Procs : pc[p] \in {"CreateTemp", "Println1", "DeferRemove", "DeferClose",
                                     "Write", "MkdirTemp", "Println2", "DeferRemoveAll",
                                     "WriteFile", "WriteFileWrite", "WriteFileClose",
                                     "Return", "RemoveAllRmdir", "exited", "killed"}
    /\ \A q \in DOMAIN fs : fs[q].kind \in {"file", "dir"}

\* ------------------------------------------------- reading the history
BodyOps == {"CreateTemp", "Write", "MkdirTemp", "WriteFile"}

DeferredOps == {"RemoveAll", "Close", "Remove"}

\* the events of the deferred calls, the first system call of RemoveAll included
CleanupOps == DeferredOps \cup {"RemoveAll.Unlink"}

\* p has left the body of main by return or panic
Unwound(p) == pc[p] \in {"Return", "RemoveAllRmdir", "exited"}

HasCall(p, op) == \E i \in 1 .. Len(trace[p]) : trace[p][i].op = op

CallOk(p, op) == \E i \in 1 .. Len(trace[p]) : trace[p][i].op = op /\ trace[p][i].ok

CallFailed(p, op) == \E i \in 1 .. Len(trace[p]) : trace[p][i].op = op /\ ~trace[p][i].ok

Pos(p, op) == CHOOSE i \in 1 .. Len(trace[p]) : trace[p][i].op = op

Reverse(s) == [i \in 1 .. Len(s) |-> s[Len(s) + 1 - i]]

IsDeferredOp(e) == e.op \in DeferredOps

\* the deferred calls p has run so far, in the order they ran
DeferredRun(p) ==
    LET evs == SelectSeq(trace[p], IsDeferredOp)
    IN  [i \in 1 .. Len(evs) |-> evs[i].op]

\* the deferred calls p has still to run, in registration order
DeferredLeft(p) == [i \in 1 .. Len(defers[p]) |-> defers[p][i].op]

\* the entries p created that are still in the file system
Created(p) == {q \in DOMAIN fs : fs[q].owner = p}

Exited(p) == pc[p] = "exited"

\* the temp file of p was created and not removed yet
LiveFile(p) == CallOk(p, "CreateTemp") /\ ~CallOk(p, "Remove")

\* the temp directory of p was created and not removed yet
LiveDir(p) == CallOk(p, "MkdirTemp") /\ ~CallOk(p, "RemoveAll")

\* ----------------------------------------------------------------- C1
\* C1 as stated: once a run has exited, on any exit path, nothing it
\* created is left in the file system.
C1_Original == \A p \in Procs : Exited(p) => Created(p) = {}

\* C1, amended: once a run has exited, os.Remove was attempted if the temp
\* file was created and os.RemoveAll if the temp directory was created; the
\* temp file is gone if Remove succeeded, the directory and all below it are
\* gone if RemoveAll succeeded; an entry is left only when its removal call
\* returned an error (which the deferred call discards).
C1_Cleanup ==
    \A p \in Procs : Exited(p) =>
        /\ CallOk(p, "CreateTemp") => HasCall(p, "Remove")
        /\ CallOk(p, "MkdirTemp") => HasCall(p, "RemoveAll")
        /\ \A q \in Created(p) :
              \/ q = f[p].name /\ CallFailed(p, "Remove")
              \/ (q = dname[p] \/ IsUnder(q, dname[p])) /\ CallFailed(p, "RemoveAll")

\* a run returned normally and another panicked after WriteFile failed with
\* file1 half written; both removed everything they had created
C1_Witness ==
    \E p, q \in Procs :
        /\ Exited(p) /\ panicval[p] = "nil"
        /\ CallOk(p, "Remove") /\ CallOk(p, "RemoveAll") /\ Created(p) = {}
        /\ Exited(q) /\ panicval[q] = "WriteFile"
        /\ CallOk(q, "Remove") /\ CallOk(q, "RemoveAll") /\ Created(q) = {}

\* ----------------------------------------------------------------- C2
\* C2 as stated: on a run where both the temp file and the temp directory
\* were created, the removal of the temp file precedes the removal of the
\* temp directory.
C2_Original ==
    \A p \in Procs :
        HasCall(p, "Remove") /\ HasCall(p, "RemoveAll")
            => Pos(p, "Remove") < Pos(p, "RemoveAll")

\* C2, amended: during cleanup the temp directory is recursively removed
\* first and the temp file is removed after it: whenever os.Remove has run
\* and os.RemoveAll had been registered, RemoveAll ran before Remove.
C2_DirBeforeFile ==
    \A p \in Procs :
        HasCall(p, "Remove") /\ (\E i \in 1 .. Len(registered[p]) : registered[p][i] = "RemoveAll")
            => HasCall(p, "RemoveAll") /\ Pos(p, "RemoveAll") < Pos(p, "Remove")

\* both removals ran and succeeded
C2_Witness ==
    \E p \in Procs : CallOk(p, "Remove") /\ CallOk(p, "RemoveAll") /\ CallOk(p, "WriteFile")

\* ----------------------------------------------------------------- C3
\* C3 as stated: none of CreateTemp, Write, Close, MkdirTemp, WriteFile,
\* Remove, RemoveAll fails on a run that exits normally.
C3_Original ==
    \A p \in Procs :
        Exited(p) /\ (\E op \in BodyOps \cup DeferredOps : CallFailed(p, op))
            => panicval[p] # "nil"

\* C3, amended: CreateTemp, Write, MkdirTemp and WriteFile have their error
\* checked at once: a failure of one of them is the last body step and the
\* run panics with that error; the errors of the deferred Close, Remove and
\* RemoveAll are discarded and never cause a panic.
C3_BodyErrorsChecked ==
    \A p \in Procs :
        /\ \A i \in 1 .. Len(trace[p]) :
              trace[p][i].op \in BodyOps /\ ~trace[p][i].ok
                  => /\ panicval[p] = trace[p][i].op
                     /\ Unwound(p)
        /\ panicval[p] # "nil" => panicval[p] \in BodyOps /\ CallFailed(p, panicval[p])

\* one run panicked on a failed MkdirTemp; another returned normally although
\* its deferred Close failed
C3_Witness ==
    \E p, q \in Procs :
        /\ Exited(p) /\ panicval[p] = "MkdirTemp"
        /\ Exited(q) /\ panicval[q] = "nil" /\ CallFailed(q, "Close")

\* ----------------------------------------------------------------- C4
\* C4: on every exit path on which the temp file was created the handle is
\* closed before os.Remove is called on its path (Remove never runs while
\* the handle is open), and the Write has completed or failed before Close.
C4_CloseBeforeRemove ==
    \A p \in Procs :
        /\ HasCall(p, "Remove")
              => /\ HasCall(p, "Close") /\ Pos(p, "Close") < Pos(p, "Remove")
                 /\ ~f[p].open
        /\ HasCall(p, "Close")
              => HasCall(p, "Write") /\ Pos(p, "Write") < Pos(p, "Close")
        /\ Unwinding(p, "Remove") => ~f[p].open
        /\ Exited(p) /\ CallOk(p, "CreateTemp") => HasCall(p, "Close") /\ HasCall(p, "Remove")

\* a run wrote, closed the handle and then called Remove
C4_Witness ==
    \E p \in Procs : CallOk(p, "Write") /\ CallOk(p, "Close") /\ CallOk(p, "Remove")

\* ----------------------------------------------------------------- C5
\* C5: once f.Write has succeeded, until the temp file is removed, the temp
\* file holds exactly the 4 bytes 1, 2, 3, 4 in that order; in particular
\* when the handle is closed.
C5_FileContents ==
    \A p \in Procs :
        CallOk(p, "Write") /\ ~CallOk(p, "Remove")
            => /\ f[p].name \in DOMAIN fs
               /\ fs[f[p].name].kind = "file"
               /\ fs[f[p].name].data = <<1, 2, 3, 4>>

\* the handle has just been closed after a successful Write
C5_Witness ==
    \E p \in Procs : CallOk(p, "Write") /\ HasCall(p, "Close") /\ ~HasCall(p, "Remove")

\* ----------------------------------------------------------------- C6
\* file1 is a file and a direct child of the temp directory of p, and holds
\* exactly the bytes 1, 2
File1InPlace(p) ==
    \E q \in DOMAIN fs :
        /\ Dir(q) = dname[p]
        /\ Base(q) = <<"f", "i", "l", "e", "1">>
        /\ fs[q].kind = "file"
        /\ fs[q].data = <<1, 2>>

\* C6 as stated: once WriteFile has succeeded, as long as the temp directory
\* has not been removed, file1 is a direct child of it and holds exactly the
\* bytes 1, 2.
C6_Original ==
    \A p \in Procs :
        (/\ CallOk(p, "WriteFile")
         /\ dname[p] \in DOMAIN fs
         /\ fs[dname[p]].owner = p)
            => File1InPlace(p)

\* C6, amended: once WriteFile has succeeded, until the deferred
\* os.RemoveAll(dname) starts, the temp directory exists and file1 is a direct
\* child of it holding exactly the bytes 1, 2.  (RemoveAll deletes file1
\* before the directory, which stays without file1 if its removal fails.)
C6_File1 ==
    \A p \in Procs :
        CallOk(p, "WriteFile") /\ ~HasCall(p, "RemoveAll.Unlink")
            => /\ dname[p] \in DOMAIN fs /\ fs[dname[p]].kind = "dir"
               /\ File1InPlace(p)

\* file1 has been written and RemoveAll has not started yet
C6_Witness ==
    \E p \in Procs :
        CallOk(p, "WriteFile") /\ pc[p] = "Return" /\ ~HasCall(p, "RemoveAll.Unlink")

\* ----------------------------------------------------------------- C7
\* a run that still has a step of main or a deferred call to execute
Running(p) == pc[p] \notin {"exited", "killed"}

\* C7 as stated: while two runs are both in progress, the temp-file paths
\* CreateTemp returned to them differ and the temp-directory paths MkdirTemp
\* returned to them differ, and no call of a run touches an entry created by
\* the other.
C7_Original ==
    \A p, q \in Procs :
        p # q /\ Running(p) /\ Running(q)
            => /\ CallOk(p, "CreateTemp") /\ CallOk(q, "CreateTemp") => f[p].name # f[q].name
               /\ CallOk(p, "MkdirTemp") /\ CallOk(q, "MkdirTemp") => dname[p] # dname[q]
               /\ \A i \in 1 .. Len(trace[p]) : trace[p][i].own \in {p, "none"}

\* C7, amended: CreateTemp and MkdirTemp never return a path at which an
\* entry exists, so the temp-file paths of two concurrent runs differ while
\* neither file has been removed and their temp-directory paths differ while
\* neither directory has been removed (a path can be returned again once the
\* entry that had it was removed); no run ever writes to, closes or removes
\* an entry created by the other.
C7_NoSharedEntry ==
    \A p, q \in Procs :
        p # q
            => /\ LiveFile(p) /\ LiveFile(q) => f[p].name # f[q].name
               /\ LiveDir(p) /\ LiveDir(q) => dname[p] # dname[q]
               /\ \A i \in 1 .. Len(trace[p]) :
                     /\ trace[p][i].own \in {p, "none"}
                     /\ trace[p][i].op \in {"CreateTemp", "MkdirTemp"} /\ trace[p][i].ok
                           => trace[p][i].own = "none"

\* both runs hold a temp file and a temp directory with file1 at the same time
C7_Witness ==
    \E p, q \in Procs :
        /\ p # q
        /\ LiveFile(p) /\ LiveFile(q) /\ LiveDir(p) /\ LiveDir(q)
        /\ CallOk(p, "WriteFile") /\ CallOk(q, "WriteFile")

\* ----------------------------------------------------------------- C8
\* C8: right after CreateTemp("", "sample") succeeds the returned path is an
\* existing file in the default temporary location whose base name starts
\* with "sample", and the handle is open and writable; right after
\* MkdirTemp("", "sampledir") succeeds the returned path is an existing
\* directory.
C8_Created ==
    \A p \in Procs :
        /\ pc[p] = "Println1"
              => /\ f[p].name \in DOMAIN fs
                 /\ fs[f[p].name].kind = "file"
                 /\ Dir(f[p].name) = <<"/", "t", "m", "p">>
                 /\ HasPrefix(Base(f[p].name), <<"s", "a", "m", "p", "l", "e">>)
                 /\ f[p].open /\ f[p].writable
        /\ pc[p] = "Println2"
              => /\ dname[p] \in DOMAIN fs
                 /\ fs[dname[p]].kind = "dir"

\* one run has just created its temp file, the other its temp directory
C8_Witness ==
    \E p, q \in Procs :
        /\ pc[p] = "Println1" /\ CallOk(p, "CreateTemp")
        /\ pc[q] = "Println2" /\ CallOk(q, "MkdirTemp")

\* ----------------------------------------------------------------- C9
FileLine(p) == <<"Temp file name:", f[p].name>>

DirLine(p) == <<"Temp dir name:", dname[p]>>

\* C9: a run in which no operation fails (no checked step, no write to
\* standard output) prints exactly two lines, the temp file name then the temp
\* directory name, each after its entry was created and before any removal;
\* any run prints at most those two lines, in that order, and only lines whose
\* creation step succeeded: nothing if CreateTemp failed, no directory name
\* if CreateTemp, Write or MkdirTemp failed.
C9_Output ==
    \A p \in Procs :
        /\ stdout[p] \in {<< >>, <<FileLine(p)>>, <<DirLine(p)>>, <<FileLine(p), DirLine(p)>>}
        /\ (\E i \in 1 .. Len(stdout[p]) : stdout[p][i][1] = "Temp file name:")
              => f[p].name # NoPath /\ CallOk(p, "CreateTemp")
        /\ (\E i \in 1 .. Len(stdout[p]) : stdout[p][i][1] = "Temp dir name:")
              => /\ dname[p] # NoPath
                 /\ CallOk(p, "CreateTemp") /\ CallOk(p, "Write") /\ CallOk(p, "MkdirTemp")
        /\ Exited(p) /\ panicval[p] = "nil" /\ ~CallFailed(p, "Println")
              => stdout[p] = <<FileLine(p), DirLine(p)>>
        /\ \A i \in 1 .. Len(trace[p]) :
              trace[p][i].op = "Println"
                  => /\ \A j \in 1 .. Len(trace[p]) :
                          trace[p][j].op \in CleanupOps => i < j
                     /\ trace[p][i - 1].op \in {"CreateTemp", "MkdirTemp"}
                     /\ trace[p][i - 1].ok

\* a run without failure has exited after printing both lines; another
\* aborted on a failed MkdirTemp after printing the file line only
C9_Witness ==
    \E p, q \in Procs :
        /\ Exited(p) /\ panicval[p] = "nil" /\ Len(stdout[p]) = 2
        /\ NumFailed(p) = 0
        /\ Exited(q) /\ panicval[q] = "MkdirTemp" /\ stdout[q] = <<FileLine(q)>>

\* ---------------------------------------------------------------- C10
\* C10: after a failed checked step no later body step runs, and exactly the
\* deferred calls registered before the failure run, latest registered
\* first: none if CreateTemp failed, Close then Remove if Write or MkdirTemp
\* failed, RemoveAll then Close then Remove otherwise.
C10_FailFast ==
    \A p \in Procs :
        /\ \A i \in 1 .. Len(trace[p]) :
              trace[p][i].op \in BodyOps /\ ~trace[p][i].ok
                  => \A j \in (i + 1) .. Len(trace[p]) : trace[p][j].op \in CleanupOps
        /\ Unwound(p)
              => /\ DeferredRun(p) \o Reverse(DeferredLeft(p)) = Reverse(registered[p])
                 /\ panicval[p] = "CreateTemp" => registered[p] = << >>
                 /\ panicval[p] \in {"Write", "MkdirTemp"}
                       => registered[p] = <<"Remove", "Close">>
                 /\ panicval[p] \in {"WriteFile", "nil"}
                       => registered[p] = <<"Remove", "Close", "RemoveAll">>
        /\ Exited(p) => DeferredRun(p) = Reverse(registered[p])

\* one run aborted on a failed Write and ran Close then Remove; another
\* aborted on a failed WriteFile and ran RemoveAll, Close, Remove
C10_Witness ==
    \E p, q \in Procs :
        /\ Exited(p) /\ panicval[p] = "Write"
        /\ DeferredRun(p) = <<"Close", "Remove">>
        /\ ~HasCall(p, "MkdirTemp")
        /\ Exited(q) /\ panicval[q] = "WriteFile"
        /\ DeferredRun(q) = <<"RemoveAll", "Close", "Remove">>
====
